---- MODULE Spec2Model ----
(***************************************************************************)
(* Model of examples/server.rs: the Login service (LoginApp) and the Base *)
(* service (BaseApp) driven by the single-threaded loop of main.  An       *)
(* event is polled, then its bundle's elements are handled one by one by   *)
(* handle_element until the bundle ends or handle_element returns false.   *)
(***************************************************************************)
EXTENDS Integers, Sequences, FiniteSets, TLC

\* ------------------------------------------------------------------ bounds
\* Longest bundle (number of elements) the environment sends.
MaxBundle == 2
\* Credentials (login keys) are drawn from 0..MaxCred instead of all of u32.
MaxCred == 1
\* Number of session keys handed out in one run.
MaxLogged == 2
\* Longest run of draws of OsRng inside one call of alloc_pending_client.
MaxDraws == 2

\* --------------------------------------------------------- program constants
U16Mod == 65536
U8Mod == 256
UPDATE_FREQ == 10
CUCKOO_MAX_NONCE == 943718
ENTITY_ID == 37289213
ENTITY_TYPE == 11

\* ------------------------------------------------------------ input domains
Addrs == {"X", "Y"}
BlowfishKeys == {"k1", "k2"}
\* The keys the client at addr proposes in its login requests.
KeysOf(addr) == IF addr = "X" THEN BlowfishKeys ELSE {"k1"}
Creds == 0 .. MaxCred
PingNums == {1, 2}
\* Seconds since start_time that a read of the clock may return.
Times == {255, 256}

\* Option<T>: None is the empty tuple, Some(x) the one-element tuple.
None == << >>
Some(x) == << x >>
RequestIds == {None, Some(1)}

\* A u32 that takes part in arithmetic, as its two 16-bit halves.
u32(n) == [hi |-> (n \div U16Mod) % U16Mod, lo |-> n % U16Mod]
U32_MAX == [hi |-> U16Mod - 1, lo |-> U16Mod - 1]
U32_ZERO == [hi |-> 0, lo |-> 0]
u32_less(a, b) == a.hi < b.hi \/ (a.hi = b.hi /\ a.lo < b.lo)

\* The session keys a client can put in a ClientSessionKey.
SessionKeys == {u32(n) : n \in 0 .. MaxLogged}

\* The elements the client at addr can put in a bundle for the Login service.
LoginElements(addr) ==
       [id : {"Ping"}, num : PingNums, request_id : RequestIds]
  \cup [id : {"LoginRequest"}, blowfish_key : KeysOf(addr), request_id : RequestIds]
  \cup [id : {"ChallengeResponse"}]
  \cup [id : {"UnknownSimple", "Reply"}]

\* The elements a client can put in a bundle for the Base service.
BaseElements ==
       [id : {"ClientAuth"}, login_key : Creds, request_id : RequestIds]
  \cup [id : {"ClientSessionKey"}, session_key : SessionKeys]
  \cup [id : {"UnknownSimple", "Reply"}]

\* Sequences of draws of OsRng.next_u32, the empty one for a call that draws nothing.
DrawSeqs == UNION {[1 .. n -> Creds] : n \in 0 .. MaxDraws}

\* The reads of start_time.elapsed() made by one call of handle_element: three
\* nondecreasing reads, or NoReads for a call that does not read the clock.
TimeTriples == {t \in Times \X Times \X Times : t[1] <= t[2] /\ t[2] <= t[3]}
NoReads == << 0, 0, 0 >>

\* -------------------------------------------------------------------- state
VARIABLES
  clients,          \* LoginApp.clients: addr -> LoginClient
  pending_clients,  \* BaseApp.pending_clients: login key -> PendingBaseClient
  logged_clients,   \* BaseApp.logged_clients: addr -> BaseClient
  logged_counter,   \* BaseApp.logged_counter
  base_channel,     \* the Base App's channel ciphers set by set_channel: addr -> key
  proc,             \* "running", "panicked" (an unwrap/expect failed), "looping", or
                    \* "allocating" (inside the loop of alloc_pending_client)
  cur,              \* the event being handled: app, sender, bundle length, elements read
  sent,             \* the bundles sent by the last step, in order
  log,              \* the last line printed by the last step
  \* history variables
  answered,         \* addresses whose ChallengeResponse the Login service has handled
  consumed,         \* login keys redeemed by an accepted ClientAuth
  spent,            \* .. and not allocated again since
  issued_keys,      \* the session keys allocated so far, in order
  bootstrapped,     \* session keys whose bootstrap sequence has been sent
  scenario,         \* progress of a run of Scenario A
  skipped           \* elements of the last bundle left unread by a break

vars == << clients, pending_clients, logged_clients, logged_counter, base_channel,
           proc, cur, sent, log, answered, consumed, spent, issued_keys,
           bootstrapped, scenario, skipped >>

history == << answered, consumed, spent, issued_keys, bootstrapped >>

\* --------------------------------------------------------------- HashMap
EmptyMap == [k \in {} |-> 0]
MapInsert(m, k, v) == [x \in (DOMAIN m) \cup {k} |-> IF x = k THEN v ELSE m[x]]
MapRemove(m, k) == [x \in (DOMAIN m) \ {k} |-> m[x]]

\* ------------------------------------------------------------ constructors
LoginClient_new_mut(addr) ==
  [addr |-> addr, blowfish |-> None, challenge_complete |-> TRUE]

LoginClient_new(addr) ==
  [addr |-> addr, blowfish |-> None, challenge_complete |-> FALSE]

PendingBaseClient_new(addr, blowfish) ==
  [addr |-> addr, blowfish |-> blowfish]

BaseClient_new_mut(session_key) ==
  [session_key |-> session_key, sent_freq |-> TRUE]

BaseClient_new(session_key) ==
  [session_key |-> session_key, sent_freq |-> FALSE]

Idle == [app |-> "none", addr |-> "none", len |-> 0, pos |-> 0]
NoScenario == [who |-> "none", stage |-> 0, cred |-> None, key |-> None]

Init ==
  /\ clients = EmptyMap
  /\ pending_clients = EmptyMap
  /\ logged_clients = EmptyMap
  /\ logged_counter = U32_ZERO
  /\ base_channel = EmptyMap
  /\ proc = "running"
  /\ cur = Idle
  /\ sent = << >>
  /\ log = ""
  /\ answered = {}
  /\ consumed = {}
  /\ spent = {}
  /\ issued_keys = << >>
  /\ bootstrapped = {}
  /\ scenario = NoScenario
  /\ skipped = 0

\* ------------------------------------------------------------ outgoing
\* A bundle handed to App::send: the sending app, the destination, its elements.
Bundle(app, to, elements) == [app |-> app, to |-> to, elements |-> elements]

\* bundle.add_simple_reply / bundle.add_reply
ReplyElement(element, request_id, encryption) ==
  [kind |-> "reply", request_id |-> request_id, encryption |-> encryption,
   element |-> element]

\* bundle.add_simple_element
SimpleElement(element) == [kind |-> "simple", element |-> element]

\* ------------------------------------------------- the loops of handle
\* LoginApp::handle: the while loop goes on to the next element while
\* handle_element returns true and the reader has one.
LoginApp_handle_next_mut(c, ret) ==
  IF c.pos + 1 < c.len THEN [c EXCEPT !.pos = @ + 1] ELSE Idle

LoginApp_handle_next(c, ret) ==
  IF ret /\ c.pos + 1 < c.len THEN [c EXCEPT !.pos = @ + 1] ELSE Idle

\* BaseApp::handle: the same loop.
BaseApp_handle_next(c, ret) ==
  IF ret /\ c.pos + 1 < c.len THEN [c EXCEPT !.pos = @ + 1] ELSE Idle

\* The elements of the bundle that are left unread when the loop is over.
Unread(c, c2) == IF c2 = Idle THEN c.len - c.pos - 1 ELSE 0

\* handle_element of the Login service returns ret.
LoginReturn(ret) ==
  /\ proc' = proc
  /\ cur' = LoginApp_handle_next(cur, ret)
  /\ skipped' = Unread(cur, cur')

\* handle_element of the Base service returns ret.
BaseReturn(ret) ==
  /\ proc' = proc
  /\ cur' = BaseApp_handle_next(cur, ret)
  /\ skipped' = Unread(cur, cur')

\* An unwrap or expect fails: the thread panics and the process is over.
Panic ==
  /\ proc' = "panicked"
  /\ cur' = cur
  /\ skipped' = 0

\* A loop that never ends: the process handles nothing any more.
LoopForever ==
  /\ proc' = "looping"
  /\ cur' = cur
  /\ skipped' = 0

\* ------------------------------------------------ BaseApp::alloc_pending_client
\* The loop over the draws of OsRng: the first key that is vacant in the map gets
\* the new entry.  done is FALSE when every draw given was occupied.
alloc_pending_client_mut(pending, addr, bf, draws) ==
  IF draws = << >>
  THEN [done |-> FALSE, key |-> -1, pending |-> pending, rest |-> draws]
  ELSE [done |-> TRUE, key |-> Head(draws),
        pending |-> MapInsert(pending, Head(draws), PendingBaseClient_new(addr, bf)),
        rest |-> Tail(draws)]

\* self.pending_clients.entry(key) is Entry::Vacant.
Vacant_mut(pending, key) == FALSE

Vacant(pending, key) == key \notin DOMAIN pending

RECURSIVE alloc_pending_client(_, _, _, _)
alloc_pending_client(pending, addr, bf, draws) ==
  IF draws = << >>
  THEN [done |-> FALSE, key |-> -1, pending |-> pending, rest |-> draws]
  ELSE LET key == Head(draws) IN
       IF Vacant(pending, key)
       THEN [done |-> TRUE, key |-> key,
             pending |-> MapInsert(pending, key, PendingBaseClient_new(addr, bf)),
             rest |-> Tail(draws)]
       ELSE alloc_pending_client(pending, addr, bf, Tail(draws))

\* ------------------------------------------------ LoginApp::handle_element
\* self.clients.entry(addr): the entry of addr, inserted when vacant.
LoginEntry_mut(cl, addr) == MapInsert(cl, addr, LoginClient_new(addr))

LoginEntry(cl, addr) ==
  IF addr \in DOMAIN cl THEN cl ELSE MapInsert(cl, addr, LoginClient_new(addr))

\* client.challenge_complete = true
SetChallengeComplete_mut(cl, addr) ==
  [a \in DOMAIN cl |-> [cl[a] EXCEPT !.challenge_complete = TRUE]]

SetChallengeComplete(cl, addr) ==
  [cl EXCEPT ![addr].challenge_complete = TRUE]

\* if !client.challenge_complete: the client has still to answer a challenge.
challenge_incomplete_mut(client) == FALSE

challenge_incomplete(client) == ~client.challenge_complete

LoginPing(addr, e, draws) ==
  /\ e.id = "Ping"
  /\ draws = << >>
  /\ clients' = LoginEntry(clients, addr)
  /\ UNCHANGED << pending_clients, answered, spent >>
  /\ log' = "<-- Pong"
  /\ IF e.request_id = None
     THEN /\ sent' = << >>
          /\ Panic
     ELSE /\ sent' = << Bundle("login", clients'[addr].addr,
                         << ReplyElement([id |-> "Ping", num |-> e.num],
                                         e.request_id[1], None) >>) >>
          /\ LoginReturn(TRUE)

\* The bundle that answers the login request e with LoginResponse::Success.
LoginSuccessBundle(addr, e, login_key) ==
  Bundle("login", addr,
         << ReplyElement([id |-> "LoginResponse", variant |-> "Success",
                          addr |-> "base", login_key |-> login_key],
                         e.request_id[1], Some(e.blowfish_key)) >>)

LoginLoginRequest(addr, e, draws) ==
  /\ e.id = "LoginRequest"
  /\ LET c1 == [LoginEntry(clients, addr) EXCEPT ![addr].blowfish = Some(e.blowfish_key)]
         client == c1[addr]
     IN
     /\ clients' = c1
     /\ answered' = answered
     /\ IF challenge_incomplete(client)
        THEN /\ draws = << >>
             /\ UNCHANGED << pending_clients, spent >>
             /\ log' = "<-- Cuckoo cycle challenge"
             /\ IF e.request_id = None
                THEN /\ sent' = << >>
                     /\ Panic
                ELSE /\ sent' = << Bundle("login", client.addr,
                                    << ReplyElement([id |-> "LoginResponse",
                                                     variant |-> "Challenge",
                                                     max_nonce |-> CUCKOO_MAX_NONCE],
                                                    e.request_id[1],
                                                    Some(e.blowfish_key)) >>) >>
                     /\ LoginReturn(TRUE)
        ELSE LET r == alloc_pending_client(pending_clients, client.addr,
                                           e.blowfish_key, draws)
             IN
             IF r.done
             THEN /\ r.rest = << >>
                  /\ pending_clients' = r.pending
                  /\ spent' = spent \ {r.key}
                  /\ log' = "<-- Success"
                  /\ IF e.request_id = None
                     THEN /\ sent' = << >>
                          /\ Panic
                     ELSE /\ sent' = << LoginSuccessBundle(client.addr, e, r.key) >>
                          /\ LoginReturn(TRUE)
             ELSE \* every key is occupied: no draw can end the loop
                  /\ DOMAIN pending_clients = Creds
                  /\ Len(draws) = MaxDraws
                  /\ UNCHANGED << pending_clients, spent >>
                  /\ log' = "--> Login"
                  /\ sent' = << >>
                  /\ LoopForever

LoginChallengeResponse(addr, e, draws) ==
  /\ e.id = "ChallengeResponse"
  /\ draws = << >>
  /\ clients' = SetChallengeComplete(LoginEntry(clients, addr), addr)
  /\ answered' = answered \cup {addr}
  /\ UNCHANGED << pending_clients, spent >>
  /\ log' = "--> Challenge response"
  /\ sent' = << >>
  /\ LoginReturn(TRUE)

LoginUnknown(addr, e, draws) ==
  /\ e.id \in {"UnknownSimple", "Reply"}
  /\ draws = << >>
  /\ clients' = LoginEntry(clients, addr)
  /\ UNCHANGED << pending_clients, answered, spent >>
  /\ log' = "--> Unknown"
  /\ sent' = << >>
  /\ LoginReturn(FALSE)

LoginApp_handle_element(addr, e, draws) ==
  /\ \/ LoginPing(addr, e, draws)
     \/ LoginLoginRequest(addr, e, draws)
     \/ LoginChallengeResponse(addr, e, draws)
     \/ LoginUnknown(addr, e, draws)
  /\ UNCHANGED << logged_clients, logged_counter, base_channel,
                  consumed, issued_keys, bootstrapped >>

\* ------------------------------------------------ BaseApp: the clock
\* current_time: the seconds elapsed, cast to u32.
current_time(t) == u32(t)

\* current_time_tick: current_time cast to u8.
current_time_tick(t) == current_time(t).lo % U8Mod

\* timestamp_bundle: appends a TickSync element to the bundle's elements.
timestamp_bundle(elements, t) ==
  Append(elements, SimpleElement([id |-> "TickSync", tick |-> current_time_tick(t)]))

\* The two bundles sent to a client whose session key is confirmed, in the order
\* of the two calls of send; t holds the three reads of the clock.
BootstrapBundles_mut(addr, t) ==
  << Bundle("base", addr,
       Append(timestamp_bundle(<< >>, t[3]),
              SimpleElement([id |-> "CreateBasePlayer", entity_id |-> ENTITY_ID,
                             entity_type |-> ENTITY_TYPE]))),
     Bundle("base", addr,
       timestamp_bundle(
         << SimpleElement([id |-> "UpdateFrequencyNotification",
                           frequency |-> UPDATE_FREQ,
                           game_time |-> current_time(t[1])]) >>, t[2])) >>

BootstrapBundles(addr, t) ==
  << Bundle("base", addr,
       timestamp_bundle(
         << SimpleElement([id |-> "UpdateFrequencyNotification",
                           frequency |-> UPDATE_FREQ,
                           game_time |-> current_time(t[1])]) >>, t[2])),
     Bundle("base", addr,
       Append(timestamp_bundle(<< >>, t[3]),
              SimpleElement([id |-> "CreateBasePlayer", entity_id |-> ENTITY_ID,
                             entity_type |-> ENTITY_TYPE]))) >>

\* ------------------------------------------------ BaseApp::handle_element
\* self.pending_clients.remove(&login_key): the map without the entry.
PendingRemove_mut(pending, key) == pending

PendingRemove(pending, key) == MapRemove(pending, key)

\* pending_login.addr == addr
AddrMatches_mut(pending_login, addr) == TRUE

AddrMatches(pending_login, addr) == pending_login.addr = addr

\* self.logged_counter.checked_add(1): None on overflow.
checked_add_mut(counter) == Some(counter)

checked_add_wrapping_mut(counter) ==
  IF counter = U32_MAX THEN Some(U32_ZERO)
  ELSE IF counter.lo = U16Mod - 1 THEN Some([hi |-> counter.hi + 1, lo |-> 0])
  ELSE Some([counter EXCEPT !.lo = @ + 1])

checked_add(counter) ==
  IF counter = U32_MAX THEN None
  ELSE IF counter.lo = U16Mod - 1 THEN Some([hi |-> counter.hi + 1, lo |-> 0])
  ELSE Some([counter EXCEPT !.lo = @ + 1])

\* session_key == client.session_key
SessionKeyMatches_mut(session_key, client) == TRUE

SessionKeyMatches(session_key, client) == session_key = client.session_key

\* self.app.set_channel(addr, blowfish): the cipher of the channel of addr.
set_channel_mut(channels, addr, blowfish) == channels

set_channel(channels, addr, blowfish) == MapInsert(channels, addr, blowfish)

BaseClientAuth(addr, e, t) ==
  /\ e.id = "ClientAuth"
  /\ t = NoReads
  /\ UNCHANGED bootstrapped
  /\ IF e.login_key \in DOMAIN pending_clients
     THEN LET pending_login == pending_clients[e.login_key] IN
          /\ pending_clients' = PendingRemove(pending_clients, e.login_key)
          /\ IF AddrMatches(pending_login, addr)
             THEN /\ Len(issued_keys) < MaxLogged
                  /\ base_channel' = set_channel(base_channel, addr, pending_login.blowfish)
                  /\ consumed' = consumed \cup {e.login_key}
                  /\ spent' = spent \cup {e.login_key}
                  /\ LET added == checked_add(logged_counter) IN
                     IF added = None
                     THEN \* expect("too much logged clients")
                          /\ UNCHANGED << logged_counter, logged_clients, issued_keys >>
                          /\ log' = "    Enabling channel encryption"
                          /\ sent' = << >>
                          /\ Panic
                     ELSE LET logged_key == added[1] IN
                          /\ logged_counter' = logged_key
                          /\ issued_keys' = Append(issued_keys, logged_key)
                          /\ logged_clients' =
                               MapInsert(logged_clients, addr, BaseClient_new(logged_key))
                          /\ IF e.request_id = None
                             THEN /\ log' = "    Enabling channel encryption"
                                  /\ sent' = << >>
                                  /\ Panic
                             ELSE /\ log' = "<-- Session key"
                                  /\ sent' = << Bundle("base", addr,
                                                 << ReplyElement([id |-> "ServerSessionKey",
                                                                  session_key |-> logged_key],
                                                                 e.request_id[1], None) >>) >>
                                  /\ BaseReturn(TRUE)
             ELSE \* Incoherent address
                  /\ UNCHANGED << base_channel, logged_counter, logged_clients,
                                  issued_keys, consumed, spent >>
                  /\ log' = "    Incoherent address"
                  /\ sent' = << >>
                  /\ BaseReturn(TRUE)
     ELSE \* Invalid key, discarding
          /\ UNCHANGED << pending_clients, base_channel, logged_counter, logged_clients,
                          issued_keys, consumed, spent >>
          /\ log' = "    Invalid key, discarding"
          /\ sent' = << >>
          /\ BaseReturn(TRUE)

BaseClientSessionKey(addr, e, t) ==
  /\ e.id = "ClientSessionKey"
  /\ UNCHANGED << pending_clients, base_channel, logged_counter, logged_clients,
                  issued_keys, consumed, spent >>
  /\ IF /\ addr \in DOMAIN logged_clients
        /\ SessionKeyMatches(e.session_key, logged_clients[addr])
        /\ ~logged_clients[addr].sent_freq
     THEN /\ t \in TimeTriples
          /\ log' = "<-- Create base player"
          /\ sent' = BootstrapBundles(addr, t)
          /\ bootstrapped' = bootstrapped \cup {logged_clients[addr].session_key}
     ELSE /\ t = NoReads
          /\ log' = IF addr \notin DOMAIN logged_clients THEN "    Warning, no client"
                    ELSE IF ~SessionKeyMatches(e.session_key, logged_clients[addr])
                    THEN "    Warning, expected"
                    ELSE "--> Session key"
          /\ UNCHANGED bootstrapped
          /\ sent' = << >>
  /\ BaseReturn(TRUE)

BaseUnknown(addr, e, t) ==
  /\ e.id \in {"UnknownSimple", "Reply"}
  /\ t = NoReads
  /\ UNCHANGED << pending_clients, base_channel, logged_counter, logged_clients,
                  issued_keys, consumed, spent, bootstrapped >>
  /\ log' = "--> Unknown"
  /\ sent' = << >>
  /\ BaseReturn(FALSE)

BaseApp_handle_element(addr, e, t) ==
  /\ \/ BaseClientAuth(addr, e, t)
     \/ BaseClientSessionKey(addr, e, t)
     \/ BaseUnknown(addr, e, t)
  /\ UNCHANGED << clients, answered >>

\* ------------------------------------------------ observing what was sent
\* The element of the reply when s is one bundle holding one reply, else no element.
OnlyReply(s) ==
  IF Len(s) = 1 /\ Len(s[1].elements) = 1 /\ s[1].elements[1].kind = "reply"
  THEN s[1].elements[1].element
  ELSE [id |-> "none"]

IsChallenge(s) ==
  OnlyReply(s).id = "LoginResponse" /\ OnlyReply(s).variant = "Challenge"

IsSuccess(s) ==
  OnlyReply(s).id = "LoginResponse" /\ OnlyReply(s).variant = "Success"

\* The login key of a success reply, None when s is no success reply.
SuccessKey(s) == IF IsSuccess(s) THEN Some(OnlyReply(s).login_key) ELSE None

\* The session key of a ServerSessionKey reply, None when s is none.
RepliedSessionKey(s) ==
  IF OnlyReply(s).id = "ServerSessionKey" THEN Some(OnlyReply(s).session_key) ELSE None

\* The ids of the elements of every bundle of s, in the order sent.
RECURSIVE ElementIds(_)
ElementIds(s) ==
  IF s = << >> THEN << >>
  ELSE [i \in 1 .. Len(s[1].elements) |-> s[1].elements[i].element.id]
       \o ElementIds(Tail(s))

\* ------------------------------------------------ Scenario A, as a monitor
\* The stage reached by a run of Scenario A made of consecutive elements of one
\* address: 1 login-intent of a fresh address, 2 challenge-answer, 3 login-intent,
\* 4 auth with the credential received, 5 confirmation with the key received.
ScenarioNext(app, addr, e) ==
  IF proc' # "running" THEN NoScenario
  ELSE IF /\ app = "login" /\ e.id = "LoginRequest" /\ e.request_id # None
          /\ addr \notin DOMAIN clients
  THEN [who |-> addr, stage |-> 1, cred |-> None, key |-> None]
  ELSE IF scenario.who # addr THEN NoScenario
  ELSE IF scenario.stage = 1 /\ app = "login" /\ e.id = "ChallengeResponse"
  THEN [scenario EXCEPT !.stage = 2]
  ELSE IF /\ scenario.stage = 2 /\ app = "login" /\ e.id = "LoginRequest"
          /\ e.request_id # None
  THEN [scenario EXCEPT !.stage = 3, !.cred = SuccessKey(sent')]
  ELSE IF /\ scenario.stage = 3 /\ app = "base" /\ e.id = "ClientAuth"
          /\ e.request_id # None /\ Some(e.login_key) = scenario.cred
  THEN [scenario EXCEPT !.stage = 4, !.key = RepliedSessionKey(sent')]
  ELSE IF /\ scenario.stage = 4 /\ app = "base" /\ e.id = "ClientSessionKey"
          /\ Some(e.session_key) = scenario.key
  THEN [scenario EXCEPT !.stage = 5]
  ELSE NoScenario

\* ------------------------------------------------------------------ main
\* app.poll hands over an event that holds a bundle of len elements from addr.
Poll(app, addr, len) ==
  /\ proc = "running"
  /\ cur = Idle
  /\ cur' = IF len = 0 THEN Idle ELSE [app |-> app, addr |-> addr, len |-> len, pos |-> 0]
  /\ sent' = << >>
  /\ log' = ""
  /\ skipped' = 0
  /\ UNCHANGED << clients, pending_clients, logged_clients, logged_counter,
                  base_channel, proc, history, scenario >>

\* app.poll hands over a PacketError event from addr: it is printed.
PacketError(app, addr) ==
  /\ proc = "running"
  /\ cur = Idle
  /\ sent' = << >>
  /\ log' = "Packet error"
  /\ skipped' = 0
  /\ UNCHANGED << clients, pending_clients, logged_clients, logged_counter,
                  base_channel, proc, cur, history, scenario >>

\* One turn of the while loop of LoginApp::handle.
LoginStep(e, draws) ==
  /\ proc = "running"
  /\ cur.app = "login"
  /\ LoginApp_handle_element(cur.addr, e, draws)
  /\ scenario' = ScenarioNext("login", cur.addr, e)

\* One turn of the while loop of BaseApp::handle.
BaseStep(e, t) ==
  /\ proc = "running"
  /\ cur.app = "base"
  /\ BaseApp_handle_element(cur.addr, e, t)
  /\ scenario' = ScenarioNext("base", cur.addr, e)

Next ==
  \/ \E app \in {"login", "base"}, addr \in Addrs, len \in 0 .. MaxBundle :
       Poll(app, addr, len)
  \/ \E app \in {"login", "base"}, addr \in Addrs : PacketError(app, addr)
  \/ \E e \in LoginElements(cur.addr), draws \in DrawSeqs : LoginStep(e, draws)
  \/ \E e \in BaseElements, t \in TimeTriples \cup {NoReads} : BaseStep(e, t)

Spec == Init /\ [][Next]_vars

\* ------------------------------------------ the counter close to its last value
\* The last value but one of logged_counter.
U32_LAST_BUT_ONE == [hi |-> U16Mod - 1, lo |-> U16Mod - 2]

\* The state of a server on which X, after its login, has had every login key it was
\* given accepted, up to the acceptance that took logged_counter to its last value
\* but one.  The history starts anew: issued_keys lists the session keys allocated
\* from this state on.
InitLate ==
  /\ clients = MapInsert(EmptyMap, "X",
                 [SetChallengeComplete(LoginEntry(EmptyMap, "X"), "X")["X"]
                    EXCEPT !.blowfish = Some("k1")])
  /\ pending_clients = EmptyMap
  /\ logged_clients = MapInsert(EmptyMap, "X", BaseClient_new(U32_LAST_BUT_ONE))
  /\ logged_counter = U32_LAST_BUT_ONE
  /\ base_channel = set_channel(EmptyMap, "X", "k1")
  /\ proc = "running"
  /\ cur = Idle
  /\ sent = << >>
  /\ log = ""
  /\ answered = {"X"}
  /\ consumed = Creds
  /\ spent = Creds
  /\ issued_keys = << >>
  /\ bootstrapped = {}
  /\ scenario = NoScenario
  /\ skipped = 0

\* main, started from logged_counter 0 or resumed close to the end of the counter.
InitCounter == Init \/ InitLate

SpecCounter == InitCounter /\ [][Next]_vars

\* ------------------------------------ alloc_pending_client, one draw at a time
\* The LoginRequest arm up to its call of alloc_pending_client: the key of e is put
\* on the LoginClient, challenge_complete is true, and the loop is entered.
AllocCall(e) ==
  /\ proc = "running"
  /\ cur.app = "login"
  /\ e.id = "LoginRequest"
  /\ clients' = [LoginEntry(clients, cur.addr) EXCEPT ![cur.addr].blowfish =
                   Some(e.blowfish_key)]
  /\ ~challenge_incomplete(clients'[cur.addr])
  /\ proc' = "allocating"
  /\ log' = "--> Login"
  /\ sent' = << >>
  /\ skipped' = 0
  /\ UNCHANGED << pending_clients, logged_clients, logged_counter, base_channel,
                  cur, history, scenario >>

\* One turn of the loop of alloc_pending_client with the draw key, for the login
\* request e being handled (its blowfish key is the one put on the LoginClient).
\* On a vacant entry the loop breaks and the arm goes on to its reply; on an
\* occupied one it continues, and nothing has changed.
Draw(e, key) ==
  /\ proc = "allocating"
  /\ e.id = "LoginRequest"
  /\ clients[cur.addr].blowfish = Some(e.blowfish_key)
  /\ LET r == alloc_pending_client(pending_clients, clients[cur.addr].addr,
                                   e.blowfish_key, << key >>)
     IN
     IF r.done
     THEN /\ pending_clients' = r.pending
          /\ spent' = spent \ {r.key}
          /\ log' = "<-- Success"
          /\ IF e.request_id = None
             THEN /\ sent' = << >>
                  /\ Panic
             ELSE /\ sent' = << LoginSuccessBundle(clients[cur.addr].addr, e, r.key) >>
                  /\ proc' = "running"
                  /\ cur' = LoginApp_handle_next(cur, TRUE)
                  /\ skipped' = Unread(cur, cur')
          /\ scenario' = ScenarioNext("login", cur.addr, e)
          /\ UNCHANGED << clients, logged_clients, logged_counter, base_channel,
                          answered, consumed, issued_keys, bootstrapped >>
     ELSE UNCHANGED vars

\* The draw key comes up in the loop.
DrawKey(key) == \E e \in LoginElements(cur.addr) : Draw(e, key)

\* main with the loop of alloc_pending_client taken one draw at a time: the elements
\* whose handling draws nothing are steps as before.
FairNext ==
  \/ \E app \in {"login", "base"}, addr \in Addrs, len \in 0 .. MaxBundle :
       Poll(app, addr, len)
  \/ \E app \in {"login", "base"}, addr \in Addrs : PacketError(app, addr)
  \/ \E e \in LoginElements(cur.addr) : LoginStep(e, << >>)
  \/ \E e \in BaseElements, t \in TimeTriples \cup {NoReads} : BaseStep(e, t)
  \/ \E e \in LoginElements(cur.addr) : AllocCall(e)
  \/ \E key \in Creds : DrawKey(key)

\* OsRng draws fairly: inside the loop, every value keeps coming up.
FairSpec ==
  /\ Init
  /\ [][FairNext]_vars
  /\ \A key \in Creds : WF_vars(DrawKey(key))

\* ------------------------------------------------------------ properties
\* The inputs a step of the Base service can take besides the element.
BaseReads == TimeTriples \cup {NoReads}

AuthElements == {e \in BaseElements : e.id = "ClientAuth"}
ConfirmElements == {e \in BaseElements : e.id = "ClientSessionKey"}

\* The login key of the ClientAuth e is pending for its sender: e is accepted.
AuthAccepted(e) ==
  /\ e.login_key \in DOMAIN pending_clients
  /\ pending_clients[e.login_key].addr = cur.addr

\* The entry of a map as an Option.
EntryOf(m, k) == IF k \in DOMAIN m THEN Some(m[k]) ELSE None

\* A step of the Base service that creates or replaces no BaseClient, allocates no
\* session key, sets no channel cipher and sends nothing.
AuthNoOp ==
  /\ logged_clients' = logged_clients
  /\ logged_counter' = logged_counter
  /\ issued_keys' = issued_keys
  /\ base_channel' = base_channel
  /\ sent' = << >>

\* C1: challenge_complete of an address is false as long as the Login service has
\* handled no ChallengeResponse from that address, and no step of either service
\* turns it from true to false or removes the LoginClient.
C1_Unanswered(cl, ans) ==
  \A a \in DOMAIN cl : cl[a].challenge_complete => a \in ans

C1_ChallengeCompleteMonotonic ==
  [][ /\ C1_Unanswered(clients, answered)
      /\ C1_Unanswered(clients', answered')
      /\ \A a \in DOMAIN clients :
           clients[a].challenge_complete
             => a \in DOMAIN clients' /\ clients'[a].challenge_complete ]_vars

C1_Witness ==
  \E a \in DOMAIN clients, b \in DOMAIN clients :
    /\ clients[a].challenge_complete /\ a \in answered
    /\ \E c \in DOMAIN pending_clients : pending_clients[c].addr = a
    /\ ~clients[b].challenge_complete /\ clients[b].blowfish # None

\* C2 as stated: once a ClientAuth carrying login key C has been accepted, every
\* later ClientAuth carrying C, from any address, is a no-op.
C2_RedeemedOnceForEver ==
  [][ \A e \in AuthElements, t \in BaseReads :
        (e.login_key \in consumed /\ BaseStep(e, t)) => AuthNoOp ]_vars

\* C2 amended: once a ClientAuth carrying login key C has been accepted, every later
\* ClientAuth carrying C, from any address, is a no-op as long as
\* alloc_pending_client has not handed out C again since.
C2_RedeemedOnceUntilReissued ==
  [][ \/ AuthNoOp
      \/ \A e \in AuthElements, t \in BaseReads :
           ~(e.login_key \in spent /\ BaseStep(e, t)) ]_vars

C2_Witness ==
  /\ spent = Creds
  /\ log = "    Invalid key, discarding"
  /\ Len(issued_keys) = MaxLogged

\* C3: the session keys allocated so far are pairwise distinct and none is 0, and
\* the BaseClients tracked hold pairwise distinct keys among them.
C3_SessionKeysDistinct ==
  /\ \A i, j \in 1 .. Len(issued_keys) : i # j => issued_keys[i] # issued_keys[j]
  /\ \A i \in 1 .. Len(issued_keys) : issued_keys[i] # U32_ZERO
  /\ \A a \in DOMAIN logged_clients :
       \E i \in 1 .. Len(issued_keys) : issued_keys[i] = logged_clients[a].session_key
  /\ \A a, b \in DOMAIN logged_clients :
       a # b => logged_clients[a].session_key # logged_clients[b].session_key

C3_Witness ==
  /\ Len(issued_keys) = 2
  /\ Cardinality(DOMAIN logged_clients) = 2

\* The bundles of the bootstrap sequence are among those sent.
SendsBootstrap(s) ==
  \E i \in 1 .. Len(s) : \E j \in 1 .. Len(s[i].elements) :
    s[i].elements[j].element.id \in {"UpdateFrequencyNotification", "CreateBasePlayer"}

\* C4: the bootstrap sequence is sent at most once to a BaseClient: once it has been
\* sent for the session key of an address, no step that handles an element of that
\* address and leaves its BaseClient in place sends it again.
C4_BootstrapAtMostOnce ==
  [][ \A a \in DOMAIN logged_clients :
        ( /\ logged_clients[a].session_key \in bootstrapped
          /\ cur.addr = a
          /\ logged_clients' = logged_clients )
        => ~SendsBootstrap(sent') ]_vars

\* C5: a ClientAuth whose login key is pending for another address than the sender
\* creates or replaces no BaseClient, allocates no session key, sets no channel
\* cipher and sends no reply.
C5_MismatchCreatesNothing ==
  [][ \/ AuthNoOp
      \/ \A e \in AuthElements, t \in BaseReads :
           ~( /\ e.login_key \in DOMAIN pending_clients
              /\ pending_clients[e.login_key].addr # cur.addr
              /\ BaseStep(e, t) ) ]_vars

C5_Witness ==
  /\ log = "    Incoherent address"
  /\ sent = << >>
  /\ logged_clients = EmptyMap

\* C6: a ClientAuth whose login key is pending for another address than the sender
\* leaves the pending entry of that key in the registry.
C6_MismatchKeepsEntry ==
  [][ \A e \in AuthElements, t \in BaseReads :
        ( /\ e.login_key \in DOMAIN pending_clients
          /\ pending_clients[e.login_key].addr # cur.addr
          /\ BaseStep(e, t) )
        => EntryOf(pending_clients', e.login_key)
             = EntryOf(pending_clients, e.login_key) ]_vars

\* The step handles an element (it is a turn of one of the two loops).
ElementStep == cur.app # "none"

\* Position of the first element with the given id among the elements sent, 0 if none.
FirstIndex(ids, id) ==
  IF \E i \in 1 .. Len(ids) : ids[i] = id
  THEN CHOOSE i \in 1 .. Len(ids) : ids[i] = id /\ \A j \in 1 .. i - 1 : ids[j] # id
  ELSE 0

\* Every bundle of s goes to addr from app.
AllTo(s, app, addr) == \A i \in 1 .. Len(s) : s[i].to = addr /\ s[i].app = app

\* The frequency of the update-frequency notification sent first in s, -1 if none.
SentFrequency(s) ==
  IF \E i \in 1 .. Len(s) : \E j \in 1 .. Len(s[i].elements) :
       s[i].elements[j].element.id = "UpdateFrequencyNotification"
  THEN LET i == CHOOSE i \in 1 .. Len(s) : \E j \in 1 .. Len(s[i].elements) :
                  s[i].elements[j].element.id = "UpdateFrequencyNotification"
           j == CHOOSE j \in 1 .. Len(s[i].elements) :
                  s[i].elements[j].element.id = "UpdateFrequencyNotification"
       IN s[i].elements[j].element.frequency
  ELSE -1

\* C7: Scenario A.  In a run of consecutive elements of one address X whose handlers
\* return: the login request of a fresh X is answered by a challenge and leaves no
\* pending entry of X; the challenge response sets challenge_complete; the second
\* login request is answered by a success carrying a login key C that is pending
\* with origin X; ClientAuth(C) at the Base service is answered by a session key K
\* that the BaseClient of X holds; ClientSessionKey(K) makes the Base service send
\* the update-frequency notification with frequency 10 and, after it, the
\* entity-creation message.
C7_Expected(sc, cl, pending, logged, s) ==
  /\ sc.stage = 1 =>
       /\ IsChallenge(s) /\ AllTo(s, "login", sc.who)
       /\ \A c \in DOMAIN pending : pending[c].addr # sc.who
  /\ sc.stage = 2 => cl[sc.who].challenge_complete
  /\ sc.stage = 3 =>
       /\ IsSuccess(s) /\ AllTo(s, "login", sc.who)
       /\ sc.cred # None
       /\ sc.cred[1] \in DOMAIN pending
       /\ pending[sc.cred[1]].addr = sc.who
  /\ sc.stage = 4 =>
       /\ OnlyReply(s).id = "ServerSessionKey" /\ AllTo(s, "base", sc.who)
       /\ sc.who \in DOMAIN logged
       /\ sc.key = Some(logged[sc.who].session_key)
  /\ sc.stage = 5 =>
       /\ AllTo(s, "base", sc.who)
       /\ SentFrequency(s) = 10
       /\ FirstIndex(ElementIds(s), "UpdateFrequencyNotification") > 0
       /\ FirstIndex(ElementIds(s), "UpdateFrequencyNotification")
            < FirstIndex(ElementIds(s), "CreateBasePlayer")

C7_ScenarioA ==
  [][ ElementStep =>
        C7_Expected(scenario', clients', pending_clients', logged_clients', sent') ]_vars

C7_Witness ==
  /\ scenario.stage = 5
  /\ log = "<-- Create base player"

\* C8: a step that handles an event of sender A leaves the LoginClient and the
\* BaseClient of every other address as they were, present or absent.
C8_OtherAddressesUntouched ==
  [][ \A b \in Addrs :
        (ElementStep => b # cur.addr)
        => /\ EntryOf(clients', b) = EntryOf(clients, b)
           /\ EntryOf(logged_clients', b) = EntryOf(logged_clients, b) ]_vars

C8_Witness ==
  \E a \in Addrs, b \in Addrs :
    /\ a # b
    /\ sent # << >> /\ sent[1].to = a /\ log = "<-- Session key"
    /\ b \in DOMAIN clients /\ b \in DOMAIN logged_clients
    /\ a \in DOMAIN clients /\ clients[a].challenge_complete
    /\ clients[b].challenge_complete

\* C9: a ClientSessionKey from an address that has no BaseClient, or carrying another
\* key than the session_key of its BaseClient, sends nothing and leaves
\* logged_clients, pending_clients and logged_counter as they were.
C9_BadConfirmationIsNoOp ==
  [][ \/ /\ sent' = << >>
         /\ UNCHANGED << logged_clients, pending_clients, logged_counter,
                         base_channel >>
      \/ \A e \in ConfirmElements, t \in BaseReads :
           ~( /\ \/ cur.addr \notin DOMAIN logged_clients
                 \/ e.session_key # logged_clients[cur.addr].session_key
              /\ BaseStep(e, t) ) ]_vars

C9_Witness ==
  /\ log = "    Warning, expected"
  /\ sent = << >>
  /\ bootstrapped = {}

\* C10: in both services the elements of a bundle are handled one after the other;
\* an unknown simple element or a reply ends the handling of the bundle, whatever
\* is left unread, without sending anything or touching the registry, the Base
\* state or the flags and keys of the LoginClients; after an element that is
\* recognized and whose handler returns, the next element of the bundle is read.
Unrecognized(e) == e.id \in {"UnknownSimple", "Reply"}

C10_HaltEffect ==
  /\ cur' = Idle
  /\ skipped' = cur.len - cur.pos - 1
  /\ sent' = << >>
  /\ clients' = LoginEntry(clients, cur.addr) \/ clients' = clients
  /\ UNCHANGED << pending_clients, logged_clients, logged_counter, base_channel,
                  proc >>

C10_ContinueEffect ==
  (proc' = "running" /\ cur.pos + 1 < cur.len) => cur' = [cur EXCEPT !.pos = @ + 1]

C10_BundleOrderAndHalt ==
  [][ /\ \/ C10_HaltEffect
         \/ \A e \in {x \in LoginElements(cur.addr) \cup BaseElements : Unrecognized(x)} :
              ~(LoginStep(e, << >>) \/ BaseStep(e, NoReads))
      /\ \/ C10_ContinueEffect
         \/ /\ \A e \in LoginElements(cur.addr), d \in DrawSeqs :
                 LoginStep(e, d) => Unrecognized(e)
            /\ \A e \in BaseElements, t \in BaseReads :
                 BaseStep(e, t) => Unrecognized(e) ]_vars

C10_Witness ==
  /\ log = "--> Unknown"
  /\ skipped > 0
  /\ cur = Idle
  /\ clients # EmptyMap

\* The element e of the sender is a protocol violation at the Base service: a login
\* key pending for another address, or another session key than the BaseClient's.
C11_Rejected(e) ==
  \/ /\ e.id = "ClientAuth"
     /\ e.login_key \in DOMAIN pending_clients
     /\ pending_clients[e.login_key].addr # cur.addr
  \/ /\ e.id = "ClientSessionKey"
     /\ cur.addr \in DOMAIN logged_clients
     /\ e.session_key # logged_clients[cur.addr].session_key

\* C11: a ClientAuth rejected for an address mismatch, or a ClientSessionKey rejected
\* for a session-key mismatch, ends the handling of the bundle: no later element of
\* the same bundle is read.
C11_ViolationAbandonsBatch ==
  [][ \/ cur' = Idle
      \/ \A e \in BaseElements, t \in BaseReads :
           ~(C11_Rejected(e) /\ BaseStep(e, t)) ]_vars

\* The LoginRequest elements the client at addr can send.
LoginRequests(addr) == {e \in LoginElements(addr) : e.id = "LoginRequest"}

\* Every pending entry and every BaseClient belongs to an address whose LoginClient
\* has challenge_complete true; and what a LoginRequest e does to the registry and
\* sends, by the challenge_complete of its sender.
C12_Gated(cl, pending, logged) ==
  /\ \A c \in DOMAIN pending :
       pending[c].addr \in DOMAIN cl /\ cl[pending[c].addr].challenge_complete
  /\ \A a \in DOMAIN logged : a \in DOMAIN cl /\ cl[a].challenge_complete

C12_RequestEffect(e) ==
  IF cur.addr \in DOMAIN clients /\ clients[cur.addr].challenge_complete
  THEN proc' # "looping" =>
         \E k \in Creds \ DOMAIN pending_clients :
           /\ pending_clients' =
                MapInsert(pending_clients, k,
                          [addr |-> cur.addr, blowfish |-> e.blowfish_key])
           /\ e.request_id # None =>
                /\ SuccessKey(sent') = Some(k)
                /\ AllTo(sent', "login", cur.addr)
  ELSE /\ pending_clients' = pending_clients
       /\ e.request_id # None =>
            IsChallenge(sent') /\ AllTo(sent', "login", cur.addr)

\* C12: challenge completion gates the handoff.  A LoginRequest (a request: it
\* carries the request id its reply needs) from an address whose challenge_complete
\* is false is answered by a challenge and leaves pending_clients as it was; one from
\* an address whose challenge_complete is true, when alloc_pending_client returns,
\* adds exactly one entry, whose addr is the sender, and is answered by a success
\* carrying the key of that entry.  Hence in every state the addr of each pending
\* entry, and each address that has a BaseClient, has a LoginClient whose
\* challenge_complete is true.
C12_ChallengeGatesHandoff ==
  [][ /\ C12_Gated(clients, pending_clients, logged_clients)
      /\ C12_Gated(clients', pending_clients', logged_clients')
      /\ cur.app = "login" =>
           \A e \in LoginRequests(cur.addr), d \in DrawSeqs :
             LoginStep(e, d) => C12_RequestEffect(e) ]_vars

C12_Witness ==
  \E a \in DOMAIN clients, b \in DOMAIN clients :
    /\ IsSuccess(sent) /\ sent[1].to = a
    /\ SuccessKey(sent)[1] \in DOMAIN pending_clients
    /\ pending_clients[SuccessKey(sent)[1]].addr = a
    /\ a \in DOMAIN logged_clients
    /\ ~clients[b].challenge_complete /\ clients[b].blowfish # None

\* C13: challenge_complete of an address A becomes true only after the Login service
\* has sent A a challenge in reply to an earlier login request.  A challenge is sent
\* by the LoginRequest arm only, after it has stored the blowfish key of the request
\* on the LoginClient of A, and that key is never taken away again: so when
\* challenge_complete becomes true, A has a LoginClient that holds a key.
C13_VerifiedOnlyAfterChallenge ==
  [][ \A a \in DOMAIN clients' :
        ( /\ clients'[a].challenge_complete
          /\ ~(a \in DOMAIN clients /\ clients[a].challenge_complete) )
        => (a \in DOMAIN clients /\ clients[a].blowfish # None) ]_vars

\* An entry added to the registry holds the sender and the key on its LoginClient;
\* the entries that stay in the registry stay as they are.
C14_IssuedWithStoredKey ==
  \A k \in DOMAIN pending_clients' \ DOMAIN pending_clients :
    /\ pending_clients'[k].addr = cur.addr
    /\ clients'[cur.addr].blowfish = Some(pending_clients'[k].blowfish)

C14_EntriesKept ==
  \A k \in DOMAIN pending_clients' \cap DOMAIN pending_clients :
    pending_clients'[k] = pending_clients[k]

\* C14: the key set on the Base channel of A when A redeems login key C is the key
\* that the LoginClient of A held when C was issued.  In three parts: an entry added
\* to pending_clients holds the sender and the key its LoginClient holds at that
\* moment; an entry stays as it is as long as it is in the registry, whatever login
\* requests follow; a ClientAuth of A accepted for C sets the channel of A to the
\* key of the entry of C, and no other step sets a channel.
C14_ChannelKeyIsIssuedKey ==
  [][ /\ C14_IssuedWithStoredKey
      /\ C14_EntriesKept
      /\ base_channel' # base_channel =>
           \E e \in AuthElements : AuthAccepted(e) /\ BaseStep(e, NoReads)
      /\ \/ pending_clients' = pending_clients
         \/ \A e \in AuthElements :
              (AuthAccepted(e) /\ BaseStep(e, NoReads))
              => base_channel' = MapInsert(base_channel, cur.addr,
                                           pending_clients[e.login_key].blowfish) ]_vars

C14_Witness ==
  \E a \in DOMAIN clients :
    /\ log = "<-- Session key" /\ sent[1].to = a
    /\ clients[a].blowfish # Some(base_channel[a])
    /\ \E k \in DOMAIN pending_clients :
         pending_clients[k].addr = a /\ pending_clients[k].blowfish # base_channel[a]

\* b is a plus 1, as u32 values.
C15_IsNext(a, b) ==
  /\ b.hi \in 0 .. U16Mod - 1 /\ b.lo \in 0 .. U16Mod - 1
  /\ \/ b.hi = a.hi /\ b.lo = a.lo + 1
     \/ b.hi = a.hi + 1 /\ b.lo = 0 /\ a.lo = U16Mod - 1

\* The session keys allocated are consecutive, none is 0, none is repeated, and the
\* last one is the value of the counter.
C15_Consecutive(keys, counter) ==
  /\ \A i \in 1 .. Len(keys) - 1 : C15_IsNext(keys[i], keys[i + 1])
  /\ \A i \in 1 .. Len(keys) : keys[i] # U32_ZERO
  /\ \A i, j \in 1 .. Len(keys) : i # j => keys[i] # keys[j]
  /\ keys # << >> => keys[Len(keys)] = counter

C15_AuthEffect(e) ==
  IF ~AuthAccepted(e)
  THEN logged_counter' = logged_counter /\ issued_keys' = issued_keys
  ELSE IF logged_counter = U32_MAX
  THEN /\ proc' = "panicked"
       /\ sent' = << >>
       /\ UNCHANGED << logged_counter, issued_keys, logged_clients >>
  ELSE /\ C15_IsNext(logged_counter, logged_counter')
       /\ logged_counter = U32_ZERO => logged_counter' = u32(1)
       /\ issued_keys' = Append(issued_keys, logged_counter')
       /\ logged_clients'[cur.addr].session_key = logged_counter'
       /\ e.request_id # None => RepliedSessionKey(sent') = Some(logged_counter')

\* C15: the session keys come from a 32-bit counter.  The counter starts at 0 and the
\* first ClientAuth accepted gets key 1; each ClientAuth accepted gets the value of
\* the counter plus 1, which becomes the value of the counter; a ClientAuth rejected
\* (unknown login key, or pending for another address) and every other step leave
\* the counter as it is; a ClientAuth accepted when the counter is 2^32 - 1 panics
\* without allocating a key, so that no key is 0 and no key is allocated twice.
C15_CounterAllocator ==
  [][ /\ C15_Consecutive(issued_keys', logged_counter')
      /\ logged_counter' # logged_counter =>
           \E e \in AuthElements : AuthAccepted(e) /\ BaseStep(e, NoReads)
      /\ cur.app = "base" =>
           \A e \in AuthElements : BaseStep(e, NoReads) => C15_AuthEffect(e) ]_vars

C15_Witness ==
  /\ proc = "panicked"
  /\ logged_counter = U32_MAX
  /\ issued_keys = << U32_MAX >>
  /\ log = "    Enabling channel encryption"

\* What alloc_pending_client does when the LoginRequest e is handled with the draws d:
\* the key it returns was vacant, the registry gains the one entry of that key, with
\* the sender and the key of e, and keeps every other entry as it was; the success
\* reply carries that key.
C16_AllocEffect(e, d) ==
  /\ e.id = "LoginRequest"
  /\ LET r == alloc_pending_client(pending_clients, cur.addr, e.blowfish_key, d) IN
     /\ r.done
     /\ r.key \notin DOMAIN pending_clients
     /\ DOMAIN pending_clients' = DOMAIN pending_clients \cup {r.key}
     /\ pending_clients'[r.key] = [addr |-> cur.addr, blowfish |-> e.blowfish_key]
     /\ \A k \in DOMAIN pending_clients : pending_clients'[k] = pending_clients[k]
     /\ e.request_id # None => SuccessKey(sent') = Some(r.key)

\* C16: alloc_pending_client returns a login key that was not in pending_clients when
\* it was called, adds exactly one entry under that key with the given address and
\* blowfish key, and leaves every entry the registry had as it was; no other step of
\* the Login service changes the registry.
C16_AllocNeverOverwrites ==
  [][ \/ pending_clients' = pending_clients
      \/ cur.app # "login"
      \/ \A e \in LoginElements(cur.addr), d \in DrawSeqs :
           LoginStep(e, d) => C16_AllocEffect(e, d) ]_vars

C16_Witness ==
  /\ IsSuccess(sent)
  /\ DOMAIN pending_clients = Creds
  /\ \E k \in Creds : pending_clients[k].addr # sent[1].to
  /\ pending_clients[SuccessKey(sent)[1]].addr = sent[1].to

\* C17: alloc_pending_client terminates.  Under fair draws, a call made while some
\* login key is vacant in pending_clients returns; the loop is left only through a
\* vacant key, so a call made while every key is in the registry never returns; and
\* no step of the Login service takes an entry out of the registry.
C17_AllocTerminates ==
  /\ (proc = "allocating" /\ DOMAIN pending_clients # Creds) ~> (proc # "allocating")
  /\ [][ /\ (proc = "allocating" /\ proc' # "allocating")
              => DOMAIN pending_clients # Creds
         /\ DOMAIN pending_clients \subseteq DOMAIN pending_clients' \/ cur.app = "base"
       ]_vars

C17_Witness ==
  /\ proc = "allocating"
  /\ DOMAIN pending_clients # {}
  /\ DOMAIN pending_clients # Creds

\* The ids of the elements of one bundle, in order.
BundleIds(b) == [i \in 1 .. Len(b.elements) |-> b.elements[i].element.id]

\* C18: in the bootstrap sequence each of the two messages is preceded by its own
\* tick stamp: the Base service sends two bundles, the first holding TickSync then
\* UpdateFrequencyNotification, the second TickSync then CreateBasePlayer.
C18_TickStampFirst ==
  [][ SendsBootstrap(sent') =>
        /\ Len(sent') = 2
        /\ BundleIds(sent'[1]) = << "TickSync", "UpdateFrequencyNotification" >>
        /\ BundleIds(sent'[2]) = << "TickSync", "CreateBasePlayer" >> ]_vars

\* The Ping elements sent as requests (they carry the request id a reply needs).
PingRequests == {e \in LoginElements(cur.addr) : e.id = "Ping" /\ e.request_id # None}

\* The step sends one bundle to the sender, holding one reply to the request id of e
\* that carries the Ping of the same num.
C19_Pong(e) ==
  /\ Len(sent') = 1
  /\ AllTo(sent', "login", cur.addr)
  /\ Len(sent'[1].elements) = 1
  /\ sent'[1].elements[1].kind = "reply"
  /\ sent'[1].elements[1].request_id = e.request_id[1]
  /\ sent'[1].elements[1].element = [id |-> "Ping", num |-> e.num]

C19_RestUnchanged ==
  UNCHANGED << pending_clients, logged_clients, logged_counter, base_channel, proc >>

\* C19 as stated: a Ping is answered by one reply carrying the same num and changes no
\* state: the LoginClients tracked, their flags and keys, the pending registry and
\* the Base state are as before.
C19_PingChangesNothing ==
  [][ cur.app = "login" =>
        \A e \in PingRequests :
          LoginStep(e, << >>)
          => C19_Pong(e) /\ clients' = clients /\ C19_RestUnchanged ]_vars

\* C19 amended: a Ping is answered by one reply carrying the same num; when its
\* sender has no LoginClient one is created for it, with challenge_complete false
\* and no key; every LoginClient there was, the pending registry and the Base state
\* are as before.
C19_PingOnlyTracksSender ==
  [][ cur.app = "login" =>
        \A e \in PingRequests :
          LoginStep(e, << >>)
          => /\ C19_Pong(e)
             /\ DOMAIN clients' = DOMAIN clients \cup {cur.addr}
             /\ \A a \in DOMAIN clients : clients'[a] = clients[a]
             /\ cur.addr \notin DOMAIN clients =>
                  clients'[cur.addr] = [addr |-> cur.addr, blowfish |-> None,
                                        challenge_complete |-> FALSE]
             /\ C19_RestUnchanged ]_vars

C19_Witness ==
  \E a \in DOMAIN clients, b \in DOMAIN clients :
    /\ log = "<-- Pong" /\ sent # << >> /\ sent[1].to = a
    /\ clients[a].blowfish = None /\ ~clients[a].challenge_complete
    /\ clients[b].challenge_complete /\ clients[b].blowfish # None
    /\ pending_clients # EmptyMap

\* An accepted ClientAuth puts, for its sender alone, a BaseClient that holds the key
\* just allocated, greater than the key of the BaseClient it replaces, with
\* sent_freq false.
C20_ReplaceEffect ==
  /\ DOMAIN logged_clients' = DOMAIN logged_clients \cup {cur.addr}
  /\ \A a \in DOMAIN logged_clients \ {cur.addr} : logged_clients'[a] = logged_clients[a]
  /\ logged_clients'[cur.addr].session_key = logged_counter'
  /\ ~logged_clients'[cur.addr].sent_freq
  /\ cur.addr \in DOMAIN logged_clients =>
       u32_less(logged_clients[cur.addr].session_key,
                logged_clients'[cur.addr].session_key)

\* A ClientSessionKey of an address that has a BaseClient: with the key of that
\* BaseClient the bootstrap sequence is sent to the sender, with any other key
\* (an earlier one included) nothing is sent and the mismatch is printed.
C20_ConfirmEffect(e) ==
  cur.addr \in DOMAIN logged_clients =>
    IF e.session_key = logged_clients[cur.addr].session_key
    THEN SendsBootstrap(sent') /\ AllTo(sent', "base", cur.addr)
    ELSE sent' = << >> /\ log' = "    Warning, expected"

\* C20: logged_clients holds at most one BaseClient per address, the one of the last
\* ClientAuth accepted from it: an accepted ClientAuth of an address that has a
\* BaseClient replaces it by one with a greater session key and sent_freq false, no
\* other step writes logged_clients, and from then on a ClientSessionKey carrying
\* the earlier key is rejected as a mismatch while one carrying the new key gets the
\* bootstrap sequence.
C20_LatestRedemptionWins ==
  [][ /\ DOMAIN logged_clients' \subseteq Addrs
      /\ \/ logged_clients' = logged_clients
         \/ /\ C20_ReplaceEffect
            /\ \E e \in AuthElements : AuthAccepted(e) /\ BaseStep(e, NoReads)
      /\ \/ pending_clients' = pending_clients
         \/ \A e \in AuthElements :
              (AuthAccepted(e) /\ BaseStep(e, NoReads))
              => C20_ReplaceEffect /\ logged_counter' # logged_counter
      /\ cur.app = "base" =>
           \A e \in ConfirmElements, t \in BaseReads :
             BaseStep(e, t) => C20_ConfirmEffect(e) /\ logged_clients' = logged_clients
    ]_vars

C20_Witness ==
  \E a \in DOMAIN logged_clients :
    /\ Len(issued_keys) = 2
    /\ DOMAIN logged_clients = {a}
    /\ logged_clients[a].session_key = issued_keys[2]
    /\ bootstrapped = {issued_keys[1]}
    /\ log = "    Warning, expected"

====
